---- MODULE Spec2Model ----
(***************************************************************************)
(* Identity and session management of the contacts API: the user          *)
(* directory (src/repository/users.py), the token codec and the identity  *)
(* cache (src/services/auth.py) and the auth routes (src/routes/auth.py). *)
(*                                                                         *)
(* Spec      every route handler is one atomic step (one event loop: the  *)
(*           handlers never suspend between their directory accesses).    *)
(* SpecConc  login, refresh and signup are split at their directory       *)
(*           accesses and interleaved (several workers on one database).  *)
(***************************************************************************)
EXTENDS Integers, Sequences, FiniteSets, TLC

VARIABLES users, cache, now, issued, tasks, last, overwritten, procs, book

vars == <<users, cache, now, issued, tasks, last, overwritten, procs, book>>

(***************************************************************************)
(* Bounds of the model.                                                    *)
(***************************************************************************)
\* background tasks waiting
MaxTasks == 1

(***************************************************************************)
(* Program constants (seconds).                                            *)
(***************************************************************************)
ACCESS_TTL == 900
REFRESH_TTL == 604800
EMAIL_TTL == 604800
CACHE_TTL == 900

Emails == {"a@x.com", "b@x.com"}
Passwords == {"secret1", "wrong"}
\* what signup is called with
SignupEmails == {"a@x.com"}
SignupPasswords == {"secret1"}
Procs == {"w1", "w2"}
\* the clock readings the model samples: at REFRESH_TTL + 1 every token issued
\* at 0 has expired, and a refresh or email token issued at 1 is at the last
\* second of its life
Instants == {0, 1, REFRESH_TTL + 1}

\* Python's None, for a string, a user row, a token and a cache entry
None == "None"
NoUser == [none |-> "user"]
NoToken == [none |-> "token"]
NoEntry == [none |-> "entry"]
NoExpiry == -1
SECRET_KEY == "secret"
FORGED == "forged"

(***************************************************************************)
(* HTTP outcomes: a status and the detail (or message) the handler gives.  *)
(***************************************************************************)
Resp(status, detail) == [status |-> status, detail |-> detail]

OK == Resp(200, "OK")
Created == Resp(201, "User successfully created. Check your email for confirmation.")
AccountExists == Resp(409, "Account already exists")
UnknownEmail == Resp(401, "Invalid email")
EmailNotConfirmed == Resp(401, "Email not confirmed")
InvalidPassword == Resp(401, "Invalid password")
RevokedToken == Resp(401, "Invalid refresh token")
WrongScope == Resp(401, "Invalid scope for token")
CouldNotValidate == Resp(401, "Could not validate credentials")
InvalidEmailToken == Resp(422, "Invalid token for email verification")
VerificationError == Resp(400, "Verification error")
AlreadyConfirmed == Resp(200, "Your email is already confirmed")
EmailConfirmed == Resp(200, "Email confirmed")
CheckYourEmail == Resp(200, "Check your email for confirmation.")
\* an exception no handler catches (KeyError, AttributeError, TypeError)
InternalError == Resp(500, "Internal Server Error")

(***************************************************************************)
(* Credential hasher.  The digest is not the plaintext; verification       *)
(* succeeds exactly for the plaintext that was hashed.                     *)
(***************************************************************************)
get_password_hash(password) == <<"bcrypt", password>>

\* mutant: every password verifies
verify_password_any(plain_password, hashed_password) == TRUE

verify_password(plain_password, hashed_password) ==
    hashed_password = get_password_hash(plain_password)

(***************************************************************************)
(* Token codec.  jwt.encode turns the datetime claims into whole seconds   *)
(* and signs the claims with HS256, which is deterministic: equal claims   *)
(* give equal token strings.  The clock `now` counts whole seconds.        *)
(***************************************************************************)
jwt_encode(claims, key) == [claims |-> claims, sig |-> key]

\* mutant: the expiry claim is not checked
jwt_decode_no_exp(token, key, t) ==
    IF token.sig # key THEN [error |-> "JWTError"] ELSE token.claims

\* JWTError for a bad signature, ExpiredSignatureError (a JWTError) when
\* exp < now, else the payload.
jwt_decode(token, key, t) ==
    IF token.sig # key THEN [error |-> "JWTError"]
    ELSE IF token.claims.exp < t THEN [error |-> "ExpiredSignatureError"]
    ELSE token.claims

IsJWTError(payload) == "error" \in DOMAIN payload

create_access_token(sub, t) ==
    jwt_encode([sub |-> sub, iat |-> t, exp |-> t + ACCESS_TTL,
                scope |-> "access_token"], SECRET_KEY)

create_refresh_token(sub, t) ==
    jwt_encode([sub |-> sub, iat |-> t, exp |-> t + REFRESH_TTL,
                scope |-> "refresh_token"], SECRET_KEY)

\* the email token carries no scope claim
create_email_token(sub, t) ==
    jwt_encode([sub |-> sub, iat |-> t, exp |-> t + EMAIL_TTL], SECRET_KEY)

\* mutant: a wrong scope is reported like a bad signature
decode_refresh_token_generic(token, t) ==
    LET payload == jwt_decode(token, SECRET_KEY, t) IN
    IF IsJWTError(payload) THEN [out |-> CouldNotValidate, email |-> None]
    ELSE IF "scope" \notin DOMAIN payload THEN [out |-> InternalError, email |-> None]
    ELSE IF payload.scope = "refresh_token" THEN [out |-> OK, email |-> payload.sub]
    ELSE [out |-> CouldNotValidate, email |-> None]

\* [out |-> failure, email |-> None] or [out |-> OK, email |-> subject]
decode_refresh_token(token, t) ==
    LET payload == jwt_decode(token, SECRET_KEY, t) IN
    IF IsJWTError(payload) THEN [out |-> CouldNotValidate, email |-> None]
    ELSE IF "scope" \notin DOMAIN payload THEN [out |-> InternalError, email |-> None]
    ELSE IF payload.scope = "refresh_token" THEN [out |-> OK, email |-> payload.sub]
    ELSE [out |-> WrongScope, email |-> None]

\* mutant: the scope claim is not checked
decode_access_token_any_scope(token, t) ==
    LET payload == jwt_decode(token, SECRET_KEY, t) IN
    IF IsJWTError(payload) THEN [out |-> CouldNotValidate, email |-> None]
    ELSE [out |-> OK, email |-> payload.sub]

\* the decoding part of get_current_user
decode_access_token(token, t) ==
    LET payload == jwt_decode(token, SECRET_KEY, t) IN
    IF IsJWTError(payload) THEN [out |-> CouldNotValidate, email |-> None]
    ELSE IF "scope" \notin DOMAIN payload THEN [out |-> InternalError, email |-> None]
    ELSE IF payload.scope = "access_token" THEN [out |-> OK, email |-> payload.sub]
    ELSE [out |-> CouldNotValidate, email |-> None]

get_email_from_token(token, t) ==
    LET payload == jwt_decode(token, SECRET_KEY, t) IN
    IF IsJWTError(payload) THEN [out |-> InvalidEmailToken, email |-> None]
    ELSE [out |-> OK, email |-> payload.sub]

\* a token string whose signature does not verify
Tamper(token) == [token EXCEPT !.sig = FORGED]

\* the token strings a client can present: the ones handed out, and forged
\* ones of either scope
Presentable ==
    issued \cup {Tamper(create_access_token("a@x.com", 0)),
                 Tamper(create_refresh_token("a@x.com", 0))}

(***************************************************************************)
(* User directory.                                                         *)
(***************************************************************************)
\* mutant: the lookup finds no row
get_user_by_email_never(dir, email) == NoUser

get_user_by_email(dir, email) == IF email \in DOMAIN dir THEN dir[email] ELSE NoUser

\* mutant: the new row is confirmed
create_user_confirmed(dir, email, password) ==
    [dir EXCEPT ![email] = [email |-> email, password |-> password,
                            confirmed |-> TRUE, refresh_token |-> NoToken]]

create_user(dir, email, password) ==
    [dir EXCEPT ![email] = [email |-> email, password |-> password,
                            confirmed |-> FALSE, refresh_token |-> NoToken]]

\* mutant: clearing the token is skipped
update_token_skip_none(dir, email, token) ==
    IF token = NoToken THEN dir ELSE [dir EXCEPT ![email].refresh_token = token]

\* mutant: a stored token is not overwritten
update_token_keep_existing(dir, email, token) ==
    IF dir[email].refresh_token # NoToken /\ token # NoToken THEN dir
    ELSE [dir EXCEPT ![email].refresh_token = token]

\* mutant: writing the token resets the confirmed flag
update_token_unconfirms(dir, email, token) ==
    [dir EXCEPT ![email].refresh_token = token, ![email].confirmed = FALSE]

update_token(dir, email, token) ==
    [dir EXCEPT ![email].refresh_token = token]

\* mutant: the flag is not written
set_confirmed_noop(dir, email) == dir

set_confirmed(dir, email) ==
    [dir EXCEPT ![email].confirmed = TRUE]

(***************************************************************************)
(* Identity cache (redis): an entry is a snapshot and an expiry instant,   *)
(* NoExpiry when none was set.                                             *)
(***************************************************************************)
r_get(c, email, t) ==
    IF c[email] = NoEntry THEN NoUser
    ELSE IF c[email].expire_at # NoExpiry /\ c[email].expire_at <= t THEN NoUser
    ELSE c[email].user

r_set(c, email, user) == [c EXCEPT ![email] = [user |-> user, expire_at |-> NoExpiry]]

r_expire(c, email, ttl, t) ==
    IF c[email] = NoEntry THEN c ELSE [c EXCEPT ![email].expire_at = t + ttl]

(***************************************************************************)
(* The last completed request and its response.                            *)
(***************************************************************************)
Call(op, email, password, token, out, access, refresh, user) ==
    [op |-> op, email |-> email, password |-> password, token |-> token,
     out |-> out, access_token |-> access, refresh_token |-> refresh,
     user |-> user]

NoCall ==
    [op |-> "none", email |-> None, password |-> None, token |-> NoToken,
     out |-> OK, access_token |-> NoToken, refresh_token |-> NoToken,
     user |-> NoUser]

\* the refresh token of a successful login that the next request, another
\* successful login of the same identity, has followed
Overwritten(email) ==
    IF last.op = "login" /\ last.out = OK /\ last.email = email
    THEN last.refresh_token ELSE NoToken

Idle == [pc |-> "idle"]

(***************************************************************************)
(* Contacts (src/repository/contacts.py): the contacts table, the id the   *)
(* next insert gets, today's date and the last contact request.            *)
(***************************************************************************)
UserIds == {1, 2}
ContactIds == {1, 2}
ContactEmails == {"c@y.com", "d@y.com"}

NoContact == [none |-> "contact"]
NoDate == [none |-> "date"]
Date(y, m, d) == [year |-> y, month |-> m, day |-> d]

NoContactCall ==
    [op |-> "none", user |-> 0, id |-> 0, out |-> OK, result |-> <<>>]

NoBook ==
    [contacts |-> [i \in ContactIds |-> NoContact], next_id |-> 1,
     today |-> Date(2023, 12, 30), last |-> NoContactCall]

Init ==
    /\ users = [e \in Emails |-> NoUser]
    /\ cache = [e \in Emails |-> NoEntry]
    /\ now = 0
    /\ issued = {}
    /\ tasks = <<>>
    /\ last = NoCall
    /\ overwritten = NoToken
    /\ procs = [p \in Procs |-> Idle]
    /\ book = NoBook

\* the clock advances
Tick(t) ==
    /\ t > now
    /\ now' = t
    /\ UNCHANGED <<book, users, cache, issued, tasks, last, overwritten, procs>>


(***************************************************************************)
(* Route handlers, each one atomic step.                                   *)
(***************************************************************************)
HasScope(token, scope) ==
    "scope" \in DOMAIN token.claims /\ token.claims.scope = scope

Sessions(tokens) == {t \in tokens : HasScope(t, "refresh_token")}
Mails(tokens) == {t \in tokens : "scope" \notin DOMAIN t.claims}

\* an inbox keeps the latest confirmation email of its address
Deliver(tokens, mail) ==
    {t \in tokens : ~(t \in Mails(tokens) /\ t.claims.sub = mail.claims.sub)}
        \cup {mail}

signup(email, password) ==
    LET exist_user == get_user_by_email(users, email) IN
    /\ IF exist_user # NoUser
       THEN /\ last' = Call("signup", email, password, NoToken, AccountExists,
                            NoToken, NoToken, NoUser)
            /\ UNCHANGED <<users, tasks>>
       ELSE /\ Len(tasks) < MaxTasks
            /\ users' = create_user(users, email, get_password_hash(password))
            /\ tasks' = Append(tasks, email)
            /\ last' = Call("signup", email, password, NoToken, Created,
                            NoToken, NoToken, users'[email])
    /\ UNCHANGED <<book, cache, now, issued, overwritten, procs>>

\* the background task: the confirmation email carries a fresh email token
send_email ==
    /\ tasks # <<>>
    /\ issued' = Deliver(issued, create_email_token(Head(tasks), now))
    /\ tasks' = Tail(tasks)
    /\ UNCHANGED <<book, users, cache, now, last, overwritten, procs>>

\* mutant: the password is checked before the confirmed flag
login_check_password_first(user, password) ==
    IF user = NoUser THEN UnknownEmail
    ELSE IF ~verify_password(password, user.password) THEN InvalidPassword
    ELSE IF ~user.confirmed THEN EmailNotConfirmed
    ELSE OK

\* mutant: the confirmed flag is not checked
login_check_skip_confirmed(user, password) ==
    IF user = NoUser THEN UnknownEmail
    ELSE IF ~verify_password(password, user.password) THEN InvalidPassword
    ELSE OK

\* the checks of login, in the handler's order
login_check(user, password) ==
    IF user = NoUser THEN UnknownEmail
    ELSE IF ~user.confirmed THEN EmailNotConfirmed
    ELSE IF ~verify_password(password, user.password) THEN InvalidPassword
    ELSE OK

login(email, password) ==
    LET user == get_user_by_email(users, email)
        out == login_check(user, password)
        access == create_access_token(email, now)
        refresh == create_refresh_token(email, now)
    IN
    /\ IF out # OK
       THEN /\ last' = Call("login", email, password, NoToken, out,
                            NoToken, NoToken, NoUser)
            /\ UNCHANGED <<users, issued, overwritten>>
       ELSE /\ users' = update_token(users, email, refresh)
            /\ issued' = issued \cup {access, refresh}
            /\ overwritten' = Overwritten(email)
            /\ last' = Call("login", email, password, NoToken, OK,
                            access, refresh, NoUser)
    /\ UNCHANGED <<book, cache, now, tasks, procs>>

refresh_token(token) ==
    LET d == decode_refresh_token(token, now)
        email == d.email
        user == get_user_by_email(users, email)
        access == create_access_token(email, now)
        refresh == create_refresh_token(email, now)
    IN
    /\ IF d.out # OK
       THEN /\ last' = Call("refresh", None, None, token, d.out,
                            NoToken, NoToken, NoUser)
            /\ UNCHANGED <<users, issued>>
       ELSE IF user = NoUser
       THEN \* user.refresh_token on None: AttributeError
            /\ last' = Call("refresh", email, None, token, InternalError,
                            NoToken, NoToken, NoUser)
            /\ UNCHANGED <<users, issued>>
       ELSE IF user.refresh_token # token
       THEN /\ users' = update_token(users, email, NoToken)
            /\ last' = Call("refresh", email, None, token, RevokedToken,
                            NoToken, NoToken, NoUser)
            /\ UNCHANGED issued
       ELSE /\ users' = update_token(users, email, refresh)
            /\ issued' = issued \cup {access, refresh}
            /\ last' = Call("refresh", email, None, token, OK,
                            access, refresh, NoUser)
    /\ UNCHANGED <<book, cache, now, tasks, overwritten, procs>>

\* mutant: a subject the directory does not hold is cached and let through
get_current_user_missing_ok(token) ==
    LET d == decode_access_token(token, now)
        email == d.email
        cached == r_get(cache, email, now)
        user == get_user_by_email(users, email)
    IN
    /\ IF d.out # OK
       THEN /\ last' = Call("resolve", None, None, token, d.out,
                            NoToken, NoToken, NoUser)
            /\ UNCHANGED cache
       ELSE IF cached # NoUser
       THEN /\ last' = Call("resolve", email, None, token, OK,
                            NoToken, NoToken, cached)
            /\ UNCHANGED cache
       ELSE /\ cache' \in {r_set(cache, email, user), cache}
            /\ last' = Call("resolve", email, None, token, InternalError,
                            NoToken, NoToken, NoUser)
    /\ UNCHANGED <<book, users, now, issued, tasks, overwritten, procs>>

\* The cache client is the synchronous one: r.get is not awaited, and
\* `await self.r.set(...)` stores the entry, then awaits the bool it returned,
\* which raises TypeError; r.expire is not reached.  When the cache write
\* itself fails, r.set raises (redis ConnectionError) and nothing is stored;
\* no handler catches either exception.
get_current_user(token) ==
    LET d == decode_access_token(token, now)
        email == d.email
        cached == r_get(cache, email, now)
        user == get_user_by_email(users, email)
    IN
    /\ IF d.out # OK
       THEN /\ last' = Call("resolve", None, None, token, d.out,
                            NoToken, NoToken, NoUser)
            /\ UNCHANGED cache
       ELSE IF cached # NoUser
       THEN /\ last' = Call("resolve", email, None, token, OK,
                            NoToken, NoToken, cached)
            /\ UNCHANGED cache
       ELSE IF user = NoUser
       THEN /\ last' = Call("resolve", email, None, token, CouldNotValidate,
                            NoToken, NoToken, NoUser)
            /\ UNCHANGED cache
       ELSE /\ cache' \in {r_set(cache, email, user), cache}
            /\ last' = Call("resolve", email, None, token, InternalError,
                            NoToken, NoToken, NoUser)
    /\ UNCHANGED <<book, users, now, issued, tasks, overwritten, procs>>

confirmed_email(token) ==
    LET d == get_email_from_token(token, now)
        email == d.email
        user == get_user_by_email(users, email)
    IN
    /\ IF d.out # OK
       THEN /\ last' = Call("confirm", None, None, token, d.out,
                            NoToken, NoToken, NoUser)
            /\ UNCHANGED users
       ELSE IF user = NoUser
       THEN /\ last' = Call("confirm", email, None, token, VerificationError,
                            NoToken, NoToken, NoUser)
            /\ UNCHANGED users
       ELSE IF user.confirmed
       THEN /\ last' = Call("confirm", email, None, token, AlreadyConfirmed,
                            NoToken, NoToken, NoUser)
            /\ UNCHANGED users
       ELSE /\ users' = set_confirmed(users, email)
            /\ last' = Call("confirm", email, None, token, EmailConfirmed,
                            NoToken, NoToken, NoUser)
    /\ UNCHANGED <<book, cache, now, issued, tasks, overwritten, procs>>

\* mutant: a confirmed identity is sent an email too
request_email_always_sends(email) ==
    LET user == get_user_by_email(users, email) IN
    /\ IF user = NoUser
       THEN /\ last' = Call("resend", email, None, NoToken, InternalError,
                            NoToken, NoToken, NoUser)
            /\ UNCHANGED tasks
       ELSE /\ Len(tasks) < MaxTasks
            /\ tasks' = Append(tasks, email)
            /\ last' = Call("resend", email, None, NoToken,
                            IF user.confirmed THEN AlreadyConfirmed
                            ELSE CheckYourEmail,
                            NoToken, NoToken, NoUser)
    /\ UNCHANGED <<book, users, cache, now, issued, overwritten, procs>>

request_email(email) ==
    LET user == get_user_by_email(users, email) IN
    /\ IF user = NoUser
       THEN \* user.confirmed on None: AttributeError
            /\ last' = Call("resend", email, None, NoToken, InternalError,
                            NoToken, NoToken, NoUser)
            /\ UNCHANGED tasks
       ELSE IF user.confirmed
       THEN /\ last' = Call("resend", email, None, NoToken, AlreadyConfirmed,
                            NoToken, NoToken, NoUser)
            /\ UNCHANGED tasks
       ELSE /\ Len(tasks) < MaxTasks
            /\ tasks' = Append(tasks, email)
            /\ last' = Call("resend", email, None, NoToken, CheckYourEmail,
                            NoToken, NoToken, NoUser)
    /\ UNCHANGED <<book, users, cache, now, issued, overwritten, procs>>

Next ==
    \/ \E t \in Instants : Tick(t)
    \/ \E e \in SignupEmails, p \in SignupPasswords : signup(e, p)
    \/ send_email
    \/ \E e \in Emails, p \in Passwords : login(e, p)
    \/ \E t \in Presentable : refresh_token(t)
    \/ \E t \in Presentable : get_current_user(t)
    \/ \E t \in Presentable : confirmed_email(t)
    \/ \E e \in Emails : request_email(e)

Spec == Init /\ [][Next]_vars

(***************************************************************************)
(* The same handlers, started after the row of a@x.com was removed from    *)
(* the users table by other means (the API has no delete): the tokens its  *)
(* login at 0 returned and its confirmation email are still outstanding.   *)
(***************************************************************************)
InitRemoved ==
    /\ users = [e \in Emails |-> NoUser]
    /\ cache = [e \in Emails |-> NoEntry]
    /\ now = 0
    /\ issued = {create_access_token("a@x.com", 0),
                 create_refresh_token("a@x.com", 0),
                 create_email_token("a@x.com", 0)}
    /\ tasks = <<>>
    /\ last = NoCall
    /\ overwritten = NoToken
    /\ procs = [p \in Procs |-> Idle]
    /\ book = NoBook

SpecRemoved == InitRemoved /\ [][Next]_vars


(***************************************************************************)
(* Contact repository and routes.  The caller is the user that             *)
(* get_current_user resolved; rows are addressed by their integer id.      *)
(***************************************************************************)
authvars == <<users, cache, now, issued, tasks, last, overwritten, procs>>

RequestIds == ContactIds \cup {3}
Todays == {Date(2023, 12, 30), Date(2024, 2, 27)}
Birthdays == {NoDate, Date(1990, 1, 2), Date(1992, 2, 29)}
\* request bodies of create and update
CreateBodies ==
    {[email |-> e, birthday |-> b, favorite |-> FALSE] :
        e \in ContactEmails, b \in Birthdays}
UpdateBodies ==
    {[email |-> "c@y.com", birthday |-> NoDate, favorite |-> TRUE],
     [email |-> "d@y.com", birthday |-> Date(1990, 1, 2), favorite |-> FALSE]}
DaysAhead == {1, 7}
Skips == {0, 1}
Limits == {1, 30}

NotFound == Resp(404, "Not found")
NoContactsFound == Resp(404, "No contacts found")
EmailExists == Resp(409, "Email already exists!")
ContactCreated == Resp(201, "Created")
NoContent == Resp(204, "No Content")

ContactCall(op, user, id, out, result) ==
    [op |-> op, user |-> user, id |-> id, out |-> out, result |-> result]

\* datetime.date: validity of a calendar date, ordinal of a date, replace(year)
IsLeap(y) == (y % 4 = 0 /\ y % 100 # 0) \/ y % 400 = 0

DaysInMonth(y, m) ==
    IF m = 2 THEN (IF IsLeap(y) THEN 29 ELSE 28)
    ELSE IF m \in {4, 6, 9, 11} THEN 30 ELSE 31

DaysBeforeYear(y) ==
    365 * (y - 1) + ((y - 1) \div 4) - ((y - 1) \div 100) + ((y - 1) \div 400)

RECURSIVE DaysBeforeMonth(_, _)
DaysBeforeMonth(y, m) ==
    IF m = 1 THEN 0 ELSE DaysBeforeMonth(y, m - 1) + DaysInMonth(y, m - 1)

toordinal(d) == DaysBeforeYear(d.year) + DaysBeforeMonth(d.year, d.month) + d.day

\* birthday.replace(year=y): ValueError when the day does not exist in y
replace_year(d, y) ==
    IF d.day > DaysInMonth(y, d.month) THEN [error |-> "ValueError"]
    ELSE Date(y, d.month, d.day)

\* mutant: the owner is not part of the filter
get_contact_by_id_any_user(tbl, contact_id, user) ==
    IF contact_id \in DOMAIN tbl THEN tbl[contact_id] ELSE NoContact

get_contact_by_id(tbl, contact_id, user) ==
    IF /\ contact_id \in DOMAIN tbl
       /\ tbl[contact_id] # NoContact
       /\ tbl[contact_id].user_id = user
    THEN tbl[contact_id] ELSE NoContact

OwnedIds(tbl, user) ==
    {i \in DOMAIN tbl : tbl[i] # NoContact /\ tbl[i].user_id = user}

get_contact_by_email(tbl, email, user) ==
    LET found == {i \in OwnedIds(tbl, user) : tbl[i].email = email} IN
    IF found = {} THEN NoContact
    ELSE tbl[CHOOSE i \in found : \A j \in found : i <= j]

create(tbl, id, body, user) ==
    [tbl EXCEPT ![id] = [id |-> id, user_id |-> user, email |-> body.email,
                         birthday |-> body.birthday,
                         favorite |-> body.favorite]]

update(tbl, contact_id, body, user) ==
    LET contact == get_contact_by_id(tbl, contact_id, user) IN
    IF contact # NoContact
    THEN [tbl EXCEPT ![contact_id] =
              [contact EXCEPT !.email = body.email,
                              !.birthday = body.birthday,
                              !.favorite = body.favorite]]
    ELSE tbl

favorite_update(tbl, contact_id, favorite, user) ==
    LET contact == get_contact_by_id(tbl, contact_id, user) IN
    IF contact # NoContact
    THEN [tbl EXCEPT ![contact_id] = [contact EXCEPT !.favorite = favorite]]
    ELSE tbl

delete(tbl, contact_id, user) ==
    LET contact == get_contact_by_id(tbl, contact_id, user) IN
    IF contact # NoContact THEN [tbl EXCEPT ![contact_id] = NoContact] ELSE tbl

\* query.offset(skip).limit(limit) over the rows in the order the database
\* returned them
Page(rows, skip, limit) ==
    SubSeq(rows, skip + 1,
           IF skip + limit < Len(rows) THEN skip + limit ELSE Len(rows))

\* the loop of search_birthday over one page: [error |-> ...] when replace
\* raises, else the ids appended, in order
search_birthday(tbl, page, days_param, today) ==
    LET days == days_param + 1
        dated == SelectSeq(page, LAMBDA i : tbl[i].birthday # NoDate)
        this_year(i) == replace_year(tbl[i].birthday, today.year)
        raises == \E k \in 1..Len(dated) : "error" \in DOMAIN this_year(dated[k])
        days_until(i) == toordinal(this_year(i)) - toordinal(today)
    IN
    IF raises THEN [error |-> "ValueError"]
    ELSE [ids |-> SelectSeq(dated, LAMBDA i : days_until(i) \in 0..(days - 1))]

\* the orders in which a query without ORDER BY can return these rows
Orders(ids) ==
    {o \in [1..Cardinality(ids) -> ids] :
        \A a, b \in 1..Cardinality(ids) : a # b => o[a] # o[b]}

InitContacts ==
    /\ users = [e \in Emails |-> NoUser]
    /\ cache = [e \in Emails |-> NoEntry]
    /\ now = 0
    /\ issued = {}
    /\ tasks = <<>>
    /\ last = NoCall
    /\ overwritten = NoToken
    /\ procs = [p \in Procs |-> Idle]
    /\ book = NoBook

DayTick(d) ==
    /\ toordinal(d) > toordinal(book.today)
    /\ book' = [book EXCEPT !.today = d]
    /\ UNCHANGED authvars

get_contact(user, contact_id) ==
    LET contact == get_contact_by_id(book.contacts, contact_id, user) IN
    /\ book' = [book EXCEPT !.last =
                   IF contact = NoContact
                   THEN ContactCall("get", user, contact_id, NotFound, <<>>)
                   ELSE ContactCall("get", user, contact_id, OK, <<contact.id>>)]
    /\ UNCHANGED authvars

create_contact(user, body) ==
    LET contact == get_contact_by_email(book.contacts, body.email, user) IN
    /\ IF contact # NoContact
       THEN book' = [book EXCEPT !.last =
                        ContactCall("create", user, 0, EmailExists, <<>>)]
       ELSE /\ book.next_id \in ContactIds
            /\ book' = [book EXCEPT
                          !.contacts = create(@, book.next_id, body, user),
                          !.next_id = @ + 1,
                          !.last = ContactCall("create", user, book.next_id,
                                               ContactCreated,
                                               <<book.next_id>>)]
    /\ UNCHANGED authvars

update_contact(user, contact_id, body) ==
    LET contact == get_contact_by_id(book.contacts, contact_id, user) IN
    /\ book' = [book EXCEPT
                  !.contacts = update(@, contact_id, body, user),
                  !.last = IF contact = NoContact
                           THEN ContactCall("update", user, contact_id,
                                            NotFound, <<>>)
                           ELSE ContactCall("update", user, contact_id, OK,
                                            <<contact_id>>)]
    /\ UNCHANGED authvars

route_favorite_update(user, contact_id, favorite) ==
    LET contact == get_contact_by_id(book.contacts, contact_id, user) IN
    /\ book' = [book EXCEPT
                  !.contacts = favorite_update(@, contact_id, favorite, user),
                  !.last = IF contact = NoContact
                           THEN ContactCall("favorite", user, contact_id,
                                            NotFound, <<>>)
                           ELSE ContactCall("favorite", user, contact_id, OK,
                                            <<contact_id>>)]
    /\ UNCHANGED authvars

remove_contact(user, contact_id) ==
    LET contact == get_contact_by_id(book.contacts, contact_id, user) IN
    /\ book' = [book EXCEPT
                  !.contacts = delete(@, contact_id, user),
                  !.last = IF contact = NoContact
                           THEN ContactCall("delete", user, contact_id,
                                            NotFound, <<>>)
                           ELSE ContactCall("delete", user, contact_id,
                                            NoContent, <<>>)]
    /\ UNCHANGED authvars

\* GET /birthdays/next_week
search_contacts(user, days, skip, limit) ==
    \E rows \in Orders(OwnedIds(book.contacts, user)) :
        LET found == search_birthday(book.contacts, Page(rows, skip, limit),
                                     days, book.today)
        IN
        /\ book' = [book EXCEPT !.last =
                       IF "error" \in DOMAIN found
                       THEN ContactCall("birthdays", user, days,
                                        InternalError, <<>>)
                       ELSE IF found.ids = <<>>
                       THEN ContactCall("birthdays", user, days,
                                        NoContactsFound, <<>>)
                       ELSE ContactCall("birthdays", user, days, OK,
                                        found.ids)]
        /\ UNCHANGED authvars

NextContacts ==
    \/ \E d \in Todays : DayTick(d)
    \/ \E u \in UserIds, i \in RequestIds : get_contact(u, i)
    \/ \E u \in UserIds, b \in CreateBodies : create_contact(u, b)
    \/ \E u \in UserIds, i \in RequestIds, b \in UpdateBodies :
          update_contact(u, i, b)
    \/ \E u \in UserIds, i \in RequestIds, f \in BOOLEAN :
          route_favorite_update(u, i, f)
    \/ \E u \in UserIds, i \in RequestIds : remove_contact(u, i)
    \/ \E u \in UserIds, d \in DaysAhead, s \in Skips, l \in Limits :
          search_contacts(u, d, s, l)

SpecContacts == InitContacts /\ [][NextContacts]_vars

(***************************************************************************)
(* Interleaved requests (SpecConc).  Each worker handles one request at a  *)
(* time; login and refresh are split where they read the directory, read   *)
(* the clock to issue tokens, and write the directory.  `raced` marks a     *)
(* request during whose run a login of the same identity has landed.       *)
(***************************************************************************)
Working(pc, email, password, token, user, access, refresh, raced) ==
    [pc |-> pc, email |-> email, password |-> password, token |-> token,
     user |-> user, access_token |-> access, refresh_token |-> refresh,
     raced |-> raced]

\* a directory in which a@x.com has signed up and confirmed
InitConc ==
    /\ users = [e \in Emails |->
                  IF e = "a@x.com"
                  THEN [email |-> e, password |-> get_password_hash("secret1"),
                        confirmed |-> TRUE, refresh_token |-> NoToken]
                  ELSE NoUser]
    /\ cache = [e \in Emails |-> NoEntry]
    /\ now = 0
    /\ issued = {}
    /\ tasks = <<>>
    /\ last = NoCall
    /\ overwritten = NoToken
    /\ procs = [p \in Procs |-> Idle]
    /\ book = NoBook

\* login, lines 58-64: the directory read and the checks
LoginBegin(p, email, password) ==
    LET user == get_user_by_email(users, email)
        out == login_check(user, password)
    IN
    /\ procs[p] = Idle
    /\ IF out # OK
       THEN /\ last' = Call("login", email, password, NoToken, out,
                            NoToken, NoToken, NoUser)
            /\ UNCHANGED procs
       ELSE /\ procs' = [procs EXCEPT ![p] =
                           Working("login_issue", email, password, NoToken,
                                   user, NoToken, NoToken, FALSE)]
            /\ UNCHANGED last
    /\ UNCHANGED <<book, users, cache, now, issued, tasks, overwritten>>

\* login, lines 66-67: the tokens are issued at the clock's reading
LoginIssue(p) ==
    /\ procs[p].pc = "login_issue"
    /\ procs' = [procs EXCEPT
                   ![p].pc = "login_write",
                   ![p].access_token = create_access_token(procs[p].email, now),
                   ![p].refresh_token = create_refresh_token(procs[p].email, now)]
    /\ UNCHANGED <<book, users, cache, now, issued, tasks, last, overwritten>>

\* login, lines 68-69: the refresh token is written and the pair returned
LoginWrite(p) ==
    LET me == procs[p] IN
    /\ me.pc = "login_write"
    /\ users' = update_token(users, me.email, me.refresh_token)
    /\ issued' = issued \cup {me.access_token, me.refresh_token}
    /\ overwritten' = IF me.raced THEN Overwritten(me.email) ELSE NoToken
    /\ last' = Call("login", me.email, me.password, NoToken, OK,
                    me.access_token, me.refresh_token, NoUser)
    /\ procs' = [q \in Procs |->
                   IF q = p THEN Idle
                   ELSE IF procs[q] # Idle /\ procs[q].email = me.email
                        THEN [procs[q] EXCEPT !.raced = TRUE]
                        ELSE procs[q]]
    /\ UNCHANGED <<book, cache, now, tasks>>

\* refresh_token, lines 85-88: decoding, the directory read, the comparison
RefreshBegin(p, token) ==
    LET d == decode_refresh_token(token, now)
        user == get_user_by_email(users, d.email)
    IN
    /\ procs[p] = Idle
    /\ IF d.out # OK
       THEN /\ last' = Call("refresh", None, None, token, d.out,
                            NoToken, NoToken, NoUser)
            /\ UNCHANGED procs
       ELSE IF user = NoUser
       THEN /\ last' = Call("refresh", d.email, None, token, InternalError,
                            NoToken, NoToken, NoUser)
            /\ UNCHANGED procs
       ELSE /\ procs' = [procs EXCEPT ![p] =
                           Working(IF user.refresh_token # token
                                   THEN "refresh_clear" ELSE "refresh_issue",
                                   d.email, None, token, user,
                                   NoToken, NoToken, FALSE)]
            /\ UNCHANGED last
    /\ UNCHANGED <<book, users, cache, now, issued, tasks, overwritten>>

\* refresh_token, lines 89-90: the stored value is cleared
RefreshClear(p) ==
    LET me == procs[p] IN
    /\ me.pc = "refresh_clear"
    /\ users' = update_token(users, me.email, NoToken)
    /\ last' = Call("refresh", me.email, None, me.token, RevokedToken,
                    NoToken, NoToken, NoUser)
    /\ procs' = [procs EXCEPT ![p] = Idle]
    /\ UNCHANGED <<book, cache, now, issued, tasks, overwritten>>

\* refresh_token, lines 92-93
RefreshIssue(p) ==
    /\ procs[p].pc = "refresh_issue"
    /\ procs' = [procs EXCEPT
                   ![p].pc = "refresh_write",
                   ![p].access_token = create_access_token(procs[p].email, now),
                   ![p].refresh_token = create_refresh_token(procs[p].email, now)]
    /\ UNCHANGED <<book, users, cache, now, issued, tasks, last, overwritten>>

\* refresh_token, lines 94-95
RefreshWrite(p) ==
    LET me == procs[p] IN
    /\ me.pc = "refresh_write"
    /\ users' = update_token(users, me.email, me.refresh_token)
    /\ issued' = issued \cup {me.access_token, me.refresh_token}
    /\ last' = Call("refresh", me.email, None, me.token, OK,
                    me.access_token, me.refresh_token, NoUser)
    /\ procs' = [procs EXCEPT ![p] = Idle]
    /\ UNCHANGED <<book, cache, now, tasks, overwritten>>

NextConc ==
    \/ \E t \in Instants : Tick(t)
    \/ \E p \in Procs, e \in Emails, pw \in Passwords : LoginBegin(p, e, pw)
    \/ \E p \in Procs : LoginIssue(p)
    \/ \E p \in Procs : LoginWrite(p)
    \/ \E p \in Procs, t \in Presentable : RefreshBegin(p, t)
    \/ \E p \in Procs : RefreshClear(p)
    \/ \E p \in Procs : RefreshIssue(p)
    \/ \E p \in Procs : RefreshWrite(p)

SpecConc == InitConc /\ [][NextConc]_vars

(***************************************************************************)
(* Interleaved signups (SpecSignup): signup split between its existence    *)
(* check and create_user.  The users table keeps emails unique: an INSERT  *)
(* of an email that a row already holds raises IntegrityError.             *)
(***************************************************************************)
UniqueViolation(dir, email) == dir[email] # NoUser

\* signup, lines 37-39: the existence check
SignupBegin(p, email, password) ==
    LET exist_user == get_user_by_email(users, email) IN
    /\ procs[p] = Idle
    /\ IF exist_user # NoUser
       THEN /\ last' = Call("signup", email, password, NoToken, AccountExists,
                            NoToken, NoToken, NoUser)
            /\ UNCHANGED procs
       ELSE /\ procs' = [procs EXCEPT ![p] =
                           Working("signup_create", email, password, NoToken,
                                   NoUser, NoToken, NoToken, FALSE)]
            /\ UNCHANGED last
    /\ UNCHANGED <<book, users, cache, now, issued, tasks, overwritten>>

\* signup, lines 40-43: hash, create_user, add_task, return; nothing catches
\* the IntegrityError of the INSERT
SignupCreate(p) ==
    LET me == procs[p] IN
    /\ me.pc = "signup_create"
    /\ IF UniqueViolation(users, me.email)
       THEN /\ last' = Call("signup", me.email, me.password, NoToken,
                            InternalError, NoToken, NoToken, NoUser)
            /\ UNCHANGED <<users, tasks>>
       ELSE /\ Len(tasks) < MaxTasks
            /\ users' = create_user(users, me.email,
                                    get_password_hash(me.password))
            /\ tasks' = Append(tasks, me.email)
            /\ last' = Call("signup", me.email, me.password, NoToken, Created,
                            NoToken, NoToken, users'[me.email])
    /\ procs' = [procs EXCEPT ![p] = Idle]
    /\ UNCHANGED <<book, cache, now, issued, overwritten>>

NextSignup ==
    \/ \E p \in Procs, e \in Emails, pw \in Passwords : SignupBegin(p, e, pw)
    \/ \E p \in Procs : SignupCreate(p)
    \/ send_email

SpecSignup == Init /\ [][NextSignup]_vars

(***************************************************************************)
(* Properties of the atomic handlers (Spec).                               *)
(***************************************************************************)
ValidSig(token) == token.sig = SECRET_KEY
ExpiredAt(token, t) == token.claims.exp < t
Stored(email) == users[email].refresh_token
Registered(email) == email \in DOMAIN users /\ users[email] # NoUser
\* refresh would exchange this token in the current state
Accepted(token) ==
    /\ decode_refresh_token(token, now).out = OK
    /\ Registered(token.claims.sub)
    /\ Stored(token.claims.sub) = token
NoTokensIn(call) == call.access_token = NoToken /\ call.refresh_token = NoToken

\* the step is this call of a handler (the first conjuncts restate what the
\* handler writes to `last`)
Logs(e, p) ==
    last'.op = "login" /\ last'.email = e /\ last'.password = p /\ login(e, p)
Refreshes(t) == last'.op = "refresh" /\ last'.token = t /\ refresh_token(t)
Resolves(t) == last'.op = "resolve" /\ last'.token = t /\ get_current_user(t)
Confirms(t) == last'.op = "confirm" /\ last'.token = t /\ confirmed_email(t)

\* C1: once a second successful login of an identity has followed a first,
\* a refresh presenting the first login's (unexpired) refresh token is
\* rejected with RevokedToken, however close the two logins are.
C1_FirstLoginTokenRevoked ==
    [][\A t \in Presentable :
         (Refreshes(t) /\ t = overwritten
            /\ decode_refresh_token(t, now).out = OK)
         => last'.out = RevokedToken]_vars

\* C2: after a successful refresh the stored value is the returned refresh
\* token, the presented token is no longer accepted, and at most one token
\* string is accepted per identity.
C2_RefreshRotates ==
    /\ (last.op = "refresh" /\ last.out = OK) =>
          /\ Stored(last.email) = last.refresh_token
          /\ ~Accepted(last.token)
    /\ \A e \in Emails :
          Cardinality({t \in Presentable : Accepted(t) /\ t.claims.sub = e}) <= 1

\* C3: a refresh with a validly signed, unexpired, refresh-scoped token that
\* differs from its subject's stored value fails with RevokedToken, leaves the
\* stored value cleared and issues no tokens.
C3_MismatchClears ==
    [][\A t \in Presentable :
         (Refreshes(t)
            /\ decode_refresh_token(t, now).out = OK
            /\ Registered(t.claims.sub)
            /\ Stored(t.claims.sub) # t)
         => /\ last'.out = RevokedToken
            /\ users'[t.claims.sub].refresh_token = NoToken
            /\ NoTokensIn(last')
            /\ issued' = issued]_vars

C3_Witness ==
    /\ last.op = "refresh" /\ last.out = RevokedToken
    /\ ValidSig(last.token) /\ ~ExpiredAt(last.token, now)
    /\ HasScope(last.token, "refresh_token")
    /\ Stored(last.email) = NoToken
    /\ \E t \in issued : HasScope(t, "refresh_token") /\ t # last.token

\* C5: login on an unconfirmed identity returns EmailNotConfirmed whether the
\* password is right or wrong, issues no tokens and leaves the directory as
\* it was.
C5_UnconfirmedLogin ==
    [][\A e \in Emails, p \in Passwords :
         (Logs(e, p) /\ Registered(e) /\ ~users[e].confirmed)
         => /\ last'.out = EmailNotConfirmed
            /\ NoTokensIn(last')
            /\ issued' = issued
            /\ users' = users]_vars

C5_Witness ==
    /\ last.op = "login" /\ last.out = EmailNotConfirmed
    /\ Registered(last.email) /\ ~users[last.email].confirmed
    /\ verify_password(last.password, users[last.email].password)

\* C6: login with the right password on a confirmed identity returns an
\* access-scoped and a refresh-scoped token, and the stored value is then the
\* returned refresh token, whatever it was before.
C6_LoginStoresRefresh ==
    [][\A e \in Emails, p \in Passwords :
         (Logs(e, p) /\ Registered(e) /\ users[e].confirmed
            /\ verify_password(p, users[e].password))
         => /\ last'.out = OK
            /\ HasScope(last'.access_token, "access_token")
            /\ HasScope(last'.refresh_token, "refresh_token")
            /\ last'.access_token.claims.sub = e
            /\ last'.refresh_token.claims.sub = e
            /\ users'[e].refresh_token = last'.refresh_token
            /\ {last'.access_token, last'.refresh_token} \subseteq issued']_vars

\* a login that replaced the different token of the login before it
C6_Witness ==
    /\ last.op = "login" /\ last.out = OK
    /\ overwritten # NoToken /\ overwritten # last.refresh_token
    /\ Stored(last.email) = last.refresh_token

\* C7: login with an unregistered email fails with UnknownEmail and login on a
\* confirmed identity with a wrong password fails with InvalidPassword; no
\* tokens are issued and the directory is as it was.
C7_LoginFailures ==
    [][\A e \in Emails, p \in Passwords :
         /\ (Logs(e, p) /\ ~Registered(e)) =>
               /\ last'.out = UnknownEmail
               /\ NoTokensIn(last') /\ issued' = issued /\ users' = users
         /\ (Logs(e, p) /\ Registered(e) /\ users[e].confirmed
               /\ users[e].password # get_password_hash(p)) =>
               /\ last'.out = InvalidPassword
               /\ NoTokensIn(last') /\ issued' = issued /\ users' = users]_vars

\* a wrong password on a confirmed identity that holds a refresh token
C7_Witness ==
    /\ last.op = "login" /\ last.out = InvalidPassword
    /\ users[last.email].confirmed
    /\ Stored(last.email) # NoToken

C7_WitnessUnknownEmail ==
    /\ last.op = "login" /\ last.out = UnknownEmail
    /\ \E e \in Emails : Registered(e) /\ Stored(e) # NoToken

Untouched == users' = users /\ cache' = cache /\ issued' = issued

\* C8 as claimed: a valid access token presented to refresh, and a valid
\* refresh token presented to resolve_current_user, are both rejected with
\* WrongScope, and nothing is issued, resolved or changed.
C8_WrongScopeBoth ==
    [][\A t \in Presentable :
         /\ (Refreshes(t) /\ ValidSig(t) /\ ~ExpiredAt(t, now)
               /\ HasScope(t, "access_token")) =>
               (last'.out = WrongScope /\ NoTokensIn(last') /\ Untouched)
         /\ (Resolves(t) /\ ValidSig(t) /\ ~ExpiredAt(t, now)
               /\ HasScope(t, "refresh_token")) =>
               (last'.out = WrongScope /\ last'.user = NoUser /\ Untouched)]_vars

\* C8 as amended: refresh rejects a valid access token with WrongScope;
\* resolve_current_user rejects a valid refresh token with the 401 "Could not
\* validate credentials" it also gives for a bad signature; nothing is issued,
\* resolved or changed.
C8_ScopeRejected ==
    [][\A t \in Presentable :
         /\ (Refreshes(t) /\ ValidSig(t) /\ ~ExpiredAt(t, now)
               /\ HasScope(t, "access_token")) =>
               (last'.out = WrongScope /\ NoTokensIn(last') /\ Untouched)
         /\ (Resolves(t) /\ ValidSig(t) /\ ~ExpiredAt(t, now)
               /\ HasScope(t, "refresh_token")) =>
               (last'.out = CouldNotValidate /\ last'.user = NoUser
                  /\ Untouched)]_vars

\* the stored, still valid refresh token was presented to resolve_current_user
C8_Witness ==
    /\ last.op = "resolve" /\ last.out = CouldNotValidate
    /\ ValidSig(last.token) /\ ~ExpiredAt(last.token, now)
    /\ HasScope(last.token, "refresh_token")
    /\ Accepted(last.token)

C8_WitnessRefresh ==
    /\ last.op = "refresh" /\ last.out = WrongScope
    /\ ValidSig(last.token) /\ HasScope(last.token, "access_token")

\* the three decoding failures of a token presented for `scope`
Tampered(t) == ~ValidSig(t)
Stale(t) == ValidSig(t) /\ ExpiredAt(t, now)
Misused(t, scope) ==
    ValidSig(t) /\ ~ExpiredAt(t, now) /\ "scope" \in DOMAIN t.claims
        /\ t.claims.scope # scope

\* C9 as claimed: a tampered, an expired and a wrong-scope token get three
\* pairwise different outcomes, from refresh and from resolve_current_user.
C9_ThreeDistinctFailures ==
    \A t1, t2, t3 \in Presentable :
       /\ (Tampered(t1) /\ Stale(t2) /\ Misused(t3, "refresh_token")) =>
             LET o1 == decode_refresh_token(t1, now).out
                 o2 == decode_refresh_token(t2, now).out
                 o3 == decode_refresh_token(t3, now).out
             IN o1 # o2 /\ o1 # o3 /\ o2 # o3
       /\ (Tampered(t1) /\ Stale(t2) /\ Misused(t3, "access_token")) =>
             LET o1 == decode_access_token(t1, now).out
                 o2 == decode_access_token(t2, now).out
                 o3 == decode_access_token(t3, now).out
             IN o1 # o2 /\ o1 # o3 /\ o2 # o3

\* C9 as amended: refresh answers a wrong-scope token with WrongScope and a
\* tampered or an expired one with the same 401 "Could not validate
\* credentials"; resolve_current_user answers all three with that 401.
C9_FailureOutcomes ==
    [][\A t \in Presentable :
         /\ Refreshes(t) =>
               /\ (Tampered(t) \/ Stale(t)) => last'.out = CouldNotValidate
               /\ Misused(t, "refresh_token") => last'.out = WrongScope
         /\ Resolves(t) =>
               ((Tampered(t) \/ Stale(t) \/ Misused(t, "access_token"))
                  => last'.out = CouldNotValidate)]_vars

\* all three kinds of token are at hand and refresh has answered WrongScope
C9_Witness ==
    /\ last.op = "refresh" /\ last.out = WrongScope
    /\ \E t1, t2, t3 \in Presentable :
          Tampered(t1) /\ Stale(t2) /\ Misused(t3, "refresh_token")
    /\ \E t3 \in Presentable : Misused(t3, "access_token")

\* the lifetime the issuer gives a token of this kind
Ttl(token) ==
    IF HasScope(token, "access_token") THEN ACCESS_TTL
    ELSE IF HasScope(token, "refresh_token") THEN REFRESH_TTL
    ELSE EMAIL_TTL

TooOld(token) == ValidSig(token) /\ now > token.claims.iat + Ttl(token)

C10_WitnessRefresh ==
    /\ last.op = "refresh" /\ last.out = CouldNotValidate
    /\ TooOld(last.token) /\ Stored(last.token.claims.sub) = last.token

C10_WitnessResolve ==
    /\ last.op = "resolve" /\ last.out = CouldNotValidate
    /\ TooOld(last.token) /\ HasScope(last.token, "access_token")


(***************************************************************************)
(* Outcomes of the handlers and the identity cache.                        *)
(***************************************************************************)
\* the failures a handler raises on purpose
NamedFailures ==
    {UnknownEmail, EmailNotConfirmed, InvalidPassword, RevokedToken,
     WrongScope, CouldNotValidate, InvalidEmailToken, AccountExists,
     VerificationError}

Successes == {OK, Created, AlreadyConfirmed, EmailConfirmed, CheckYourEmail}

\* a correctly signed, unexpired confirmation token
LiveMail(t) ==
    ValidSig(t) /\ ~ExpiredAt(t, now) /\ "scope" \notin DOMAIN t.claims

\* C11: a confirmation token (signed, no scope claim) presented to refresh or
\* to resolve_current_user is rejected with a named failure kind; no identity
\* is resolved, no tokens are issued, nothing is changed.
C11_ConfirmationTokenRejected ==
    [][\A t \in Presentable :
         /\ (Refreshes(t) /\ LiveMail(t)) =>
               (last'.out \in NamedFailures /\ NoTokensIn(last') /\ Untouched)
         /\ (Resolves(t) /\ LiveMail(t)) =>
               (last'.out \in NamedFailures /\ last'.user = NoUser
                  /\ Untouched)]_vars

\* resolve_current_user of a valid access token whose subject the directory
\* holds and the cache does not
ResolvesMiss(t) ==
    /\ Resolves(t)
    /\ decode_access_token(t, now).out = OK
    /\ Registered(t.claims.sub)
    /\ r_get(cache, t.claims.sub, now) = NoUser

ResolvesHit(t) ==
    /\ Resolves(t)
    /\ decode_access_token(t, now).out = OK
    /\ r_get(cache, t.claims.sub, now) # NoUser

\* C12: resolve_current_user with a valid access token and no cache entry
\* reads the directory, writes the cache entry and returns the identity; with
\* a cache entry it returns the cached identity without reading the directory.
C12_ResolveFillsCache ==
    [][\A t \in Presentable :
         /\ ResolvesMiss(t) =>
               /\ last'.out = OK
               /\ last'.user = users[t.claims.sub]
               /\ cache'[t.claims.sub] # NoEntry
               /\ cache'[t.claims.sub].user = users[t.claims.sub]
         /\ ResolvesHit(t) =>
               /\ last'.out = OK
               /\ last'.user = r_get(cache, t.claims.sub, now)
               /\ cache' = cache]_vars

\* resolve_current_user of a valid access token whose subject neither the
\* cache nor the directory holds
ResolvesGone(t) ==
    /\ Resolves(t)
    /\ decode_access_token(t, now).out = OK
    /\ ~Registered(t.claims.sub)
    /\ r_get(cache, t.claims.sub, now) = NoUser

\* C13 as claimed: resolve_current_user with a valid access token, a cache
\* miss and a subject absent from the directory fails with UnknownEmail and
\* writes nothing to the cache.
C13_GoneIsUnknownEmail ==
    [][\A t \in Presentable :
         ResolvesGone(t) =>
            (last'.out = UnknownEmail /\ last'.user = NoUser
               /\ cache' = cache)]_vars

\* C13 as amended: the failure is the 401 "Could not validate credentials"
\* that a bad token gets; no identity is resolved and nothing is written to
\* the cache.
C13_GoneIsRejected ==
    [][\A t \in Presentable :
         ResolvesGone(t) =>
            (last'.out = CouldNotValidate /\ last'.user = NoUser
               /\ cache' = cache)]_vars

C13_Witness ==
    /\ last.op = "resolve" /\ last.out = CouldNotValidate
    /\ ValidSig(last.token) /\ ~ExpiredAt(last.token, now)
    /\ HasScope(last.token, "access_token")
    /\ ~Registered(last.token.claims.sub)
    /\ cache[last.token.claims.sub] = NoEntry

\* C14: when the token is valid and the directory holds the identity,
\* resolve_current_user returns it whether the cache write stored the entry
\* or failed.
C14_CacheWriteNeverFails ==
    [][\A t \in Presentable :
         (ResolvesMiss(t)
            /\ cache'[t.claims.sub] \in {NoEntry, [user |-> users[t.claims.sub],
                                                   expire_at |-> NoExpiry]})
         => (last'.out # InternalError /\ last'.user = users[t.claims.sub])]_vars

\* C15: every handler ends in its success value or in a named failure kind,
\* never in an unhandled error.
C15_NoUnhandledError == last.out \in Successes \cup NamedFailures

\* C23: every identity-cache entry carries an expiry, and a snapshot is
\* returned from the cache only before its expiry.
C23_EntriesExpire ==
    /\ \A e \in Emails :
          cache[e] # NoEntry => cache[e].expire_at # NoExpiry
    /\ (last.op = "resolve" /\ last.out = OK) =>
          /\ cache[last.email].expire_at # NoExpiry
          /\ now < cache[last.email].expire_at

\* the token checks come first, the cache next, the directory after a miss
ChecksBeforeLookups(t) ==
    LET d == decode_access_token(t, now)
        e == t.claims.sub
    IN
    /\ d.out # OK =>
          (last'.out = d.out /\ last'.user = NoUser /\ cache' = cache)
    /\ (d.out = OK /\ cache[e] # NoEntry) =>
          (last'.out = OK /\ last'.user = cache[e].user /\ cache' = cache)
    /\ (d.out = OK /\ cache[e] = NoEntry /\ ~Registered(e)) =>
          (last'.out = CouldNotValidate /\ last'.user = NoUser
             /\ cache' = cache)
    /\ cache' # cache =>
          (d.out = OK /\ cache[e] = NoEntry /\ Registered(e))

\* C24: resolve_current_user consults the cache and the directory only after
\* the token's signature, expiry and scope were checked, the directory only
\* after a cache miss, and a request that does not end in the identity has
\* written nothing to the cache.
C24_ResolveOrder ==
    [][\A t \in Presentable :
         Resolves(t) =>
            /\ ChecksBeforeLookups(t)
            /\ last'.out # OK => cache' = cache]_vars

\* the part of C24 about the order of the checks and lookups alone
C24_OrderOnly ==
    [][\A t \in Presentable : Resolves(t) => ChecksBeforeLookups(t)]_vars

(***************************************************************************)
(* Signup and the confirmation workflow.                                   *)
(***************************************************************************)
Signs(e, p) ==
    last'.op = "signup" /\ last'.email = e /\ last'.password = p /\ signup(e, p)
Resends(e) == last'.op = "resend" /\ last'.email = e /\ request_email(e)

\* C16: signup with a registered email fails with AccountExists (409),
\* creates no identity, schedules no confirmation email and leaves the
\* existing identity as it was.
C16_SignupExisting ==
    [][\A e \in SignupEmails, p \in SignupPasswords :
         (Signs(e, p) /\ Registered(e)) =>
            /\ last'.out = AccountExists
            /\ last'.out.status = 409
            /\ last'.user = NoUser
            /\ users' = users
            /\ tasks' = tasks
            /\ issued' = issued]_vars

\* a second signup of a confirmed identity that holds a refresh token
C16_Witness ==
    /\ last.op = "signup" /\ last.out = AccountExists
    /\ users[last.email].confirmed
    /\ Stored(last.email) # NoToken

\* C17: signup with an unregistered email creates one identity, unconfirmed,
\* without refresh token, holding the hash of the password; it schedules one
\* confirmation email and returns the identity before the email is sent.
C17_SignupCreates ==
    [][\A e \in SignupEmails, p \in SignupPasswords :
         (Signs(e, p) /\ ~Registered(e)) =>
            /\ last'.out = Created
            /\ \A o \in Emails \ {e} : users'[o] = users[o]
            /\ users'[e] = [email |-> e, password |-> <<"bcrypt", p>>,
                            confirmed |-> FALSE, refresh_token |-> NoToken]
            /\ verify_password(p, users'[e].password)
            /\ last'.user = users'[e]
            /\ tasks' = Append(tasks, e)
            /\ issued' = issued]_vars

\* the identity was returned while its confirmation email is still waiting
C17_Witness ==
    /\ last.op = "signup" /\ last.out = Created
    /\ last.user = users[last.email]
    /\ tasks = <<last.email>>
    /\ Mails(issued) = {}

\* C18: confirm with a valid token sets confirmed for a registered
\* unconfirmed subject, answers "already confirmed" and changes nothing for a
\* confirmed one, fails with VerificationError and changes nothing for an
\* unknown one; a confirm that follows a confirm leaves the directory as the
\* first one left it.
C18_ConfirmIdempotent ==
    [][\A t \in Presentable :
         (Confirms(t) /\ get_email_from_token(t, now).out = OK) =>
            LET e == t.claims.sub IN
            /\ (~Registered(e)) =>
                  (last'.out = VerificationError /\ users' = users)
            /\ (Registered(e) /\ users[e].confirmed) =>
                  (last'.out = AlreadyConfirmed /\ users' = users)
            /\ (Registered(e) /\ ~users[e].confirmed) =>
                  /\ last'.out = EmailConfirmed
                  /\ users' = [users EXCEPT ![e].confirmed = TRUE]
            /\ (last.op = "confirm" /\ last.token = t
                  /\ last.out \in {EmailConfirmed, AlreadyConfirmed}) =>
                  users' = users]_vars

\* confirm applied a second time, right after it confirmed the identity
C18_Witness ==
    /\ last.op = "confirm" /\ last.out = AlreadyConfirmed
    /\ users[last.email].confirmed
    /\ Stored(last.email) = NoToken
    /\ now = 0

C18_WitnessUnknown ==
    /\ last.op = "confirm" /\ last.out = VerificationError
    /\ ValidSig(last.token) /\ ~ExpiredAt(last.token, now)

C18_WitnessConfirmed ==
    /\ last.op = "confirm" /\ last.out = EmailConfirmed
    /\ users[last.email].confirmed

\* C19: the confirmed flag of an identity turns true only in a confirm step,
\* and once true no step removes the identity or turns the flag false.
C19_ConfirmedMonotonic ==
    [][\A e \in Emails :
         /\ (Registered(e) /\ users[e].confirmed) =>
               (users'[e] # NoUser /\ users'[e].confirmed)
         /\ (users'[e] # NoUser /\ users'[e].confirmed
               /\ ~(Registered(e) /\ users[e].confirmed)) =>
               (last'.op = "confirm" /\ last'.out = EmailConfirmed
                  /\ last'.email = e /\ Registered(e))]_vars

\* a confirmed identity after a login, a refresh and a later signup attempt
C19_Witness ==
    /\ last.op = "signup" /\ last.out = AccountExists
    /\ users[last.email].confirmed
    /\ \E t \in issued : HasScope(t, "refresh_token") /\ t.claims.iat > 0

\* C20: resend_confirmation for a confirmed identity succeeds and schedules
\* no email; for a registered unconfirmed identity it schedules one email;
\* neither changes the directory.
C20_ResendFrame ==
    [][\A e \in Emails :
         /\ (Resends(e) /\ Registered(e) /\ users[e].confirmed) =>
               /\ last'.out = AlreadyConfirmed
               /\ last'.out.status = 200
               /\ tasks' = tasks
               /\ users' = users
         /\ (Resends(e) /\ Registered(e) /\ ~users[e].confirmed) =>
               /\ last'.out = CheckYourEmail
               /\ tasks' = Append(tasks, e)
               /\ issued' = issued
               /\ users' = users]_vars

\* a resend for an unconfirmed identity whose first email was delivered
C20_Witness ==
    /\ last.op = "resend" /\ last.out = CheckYourEmail
    /\ ~users[last.email].confirmed
    /\ tasks = <<last.email>>
    /\ Mails(issued) # {}

C20_WitnessConfirmed ==
    /\ last.op = "resend" /\ last.out = AlreadyConfirmed
    /\ users[last.email].confirmed
    /\ Stored(last.email) # NoToken

\* the access and refresh tokens among these
Scoped(tokens) == {t \in tokens : "scope" \in DOMAIN t.claims}

\* C26: an identity with a stored refresh token is confirmed, and every
\* access or refresh token is issued to a subject that is confirmed when the
\* token is issued.
C26_TokensOnlyForConfirmed ==
    [][/\ \A e \in Emails :
            (users'[e] # NoUser /\ users'[e].refresh_token # NoToken) =>
               users'[e].confirmed
       /\ \A t \in Scoped(issued') \ Scoped(issued) :
            Registered(t.claims.sub) /\ users[t.claims.sub].confirmed]_vars

\* a refresh that issued a new pair to a confirmed identity
C26_Witness ==
    /\ last.op = "refresh" /\ last.out = OK
    /\ last.refresh_token \in issued
    /\ Stored(last.email) = last.refresh_token
    /\ users[last.email].confirmed

\* C27: an access- or refresh-scoped token presented to confirm never changes
\* a confirmed flag: the outcome is "already confirmed" or a failure.
C27_SessionTokenConfirmsNothing ==
    [][\A t \in Presentable :
         (Confirms(t) /\ "scope" \in DOMAIN t.claims) =>
            /\ users' = users
            /\ last'.out \in {AlreadyConfirmed, InvalidEmailToken,
                              VerificationError}]_vars

\* a live access token was accepted by the unscoped decode of confirm
C27_Witness ==
    /\ last.op = "confirm" /\ last.out = AlreadyConfirmed
    /\ ValidSig(last.token) /\ ~ExpiredAt(last.token, now)
    /\ HasScope(last.token, "access_token")

C27_WitnessRefresh ==
    /\ last.op = "confirm" /\ last.out = AlreadyConfirmed
    /\ HasScope(last.token, "refresh_token")

(***************************************************************************)
(* Properties of the contact routes (SpecContacts).                        *)
(***************************************************************************)
Owned(u, i) ==
    /\ i \in ContactIds
    /\ book.contacts[i] # NoContact
    /\ book.contacts[i].user_id = u

\* the step is a request of user u addressed to contact id i
ById(u, i) ==
    /\ book'.last.op \in {"get", "update", "favorite", "delete"}
    /\ book'.last.user = u /\ book'.last.id = i
    /\ \/ get_contact(u, i)
       \/ \E b \in UpdateBodies : update_contact(u, i, b)
       \/ \E f \in BOOLEAN : route_favorite_update(u, i, f)
       \/ remove_contact(u, i)

\* C21: get, update, favorite_update and delete by id act only on an existing
\* contact of the calling user; for any other id they answer 404 "Not found"
\* and leave every contact unchanged.
C21_OwnerOnly ==
    [][\A u \in UserIds, i \in RequestIds :
         /\ (ById(u, i) /\ ~Owned(u, i)) =>
               /\ book'.last.out = NotFound
               /\ book'.last.out.status = 404
               /\ book'.last.result = <<>>
               /\ book'.contacts = book.contacts
         /\ (ById(u, i) /\ Owned(u, i)) =>
               /\ book'.last.out \in {OK, NoContent}
               /\ \A j \in ContactIds \ {i} :
                     book'.contacts[j] = book.contacts[j]]_vars

\* a delete addressed to a contact of another user
C21_Witness ==
    /\ book.last.op = "delete" /\ book.last.out = NotFound
    /\ book.last.id \in ContactIds
    /\ book.contacts[book.last.id] # NoContact
    /\ book.contacts[book.last.id].user_id # book.last.user

C21_WitnessOwned ==
    /\ book.last.op = "delete" /\ book.last.out = NoContent
    /\ \E j \in ContactIds : book.contacts[j] # NoContact

\* days from today to the next date that has the birthday's month and day,
\* searched from the year y on
RECURSIVE DaysToNext(_, _, _)
DaysToNext(birthday, today, y) ==
    IF /\ birthday.day <= DaysInMonth(y, birthday.month)
       /\ toordinal(Date(y, birthday.month, birthday.day)) >= toordinal(today)
    THEN toordinal(Date(y, birthday.month, birthday.day)) - toordinal(today)
    ELSE DaysToNext(birthday, today, y + 1)

\* the contacts of user u whose next birthday is 0 to `days` days ahead
Upcoming(u, days) ==
    {i \in OwnedIds(book.contacts, u) :
        /\ book.contacts[i].birthday # NoDate
        /\ DaysToNext(book.contacts[i].birthday, book.today, book.today.year)
              \in 0..days}

Range(seq) == {seq[k] : k \in 1..Len(seq)}

\* C28: search_birthday, asked for a page that holds all contacts of the
\* caller, returns exactly the caller's contacts whose next birthday is 0 to
\* `days` days after today.
C28_BirthdaysAhead ==
    [][\A u \in UserIds, d \in DaysAhead :
         (/\ book'.last.op = "birthdays"
          /\ book'.last.user = u /\ book'.last.id = d
          /\ search_contacts(u, d, 0, 30)) =>
            /\ book'.last.out \in {OK, NoContactsFound}
            /\ Range(book'.last.result) = Upcoming(u, d)]_vars

\* the same for birthdays that fall later in today's calendar year, on a day
\* that exists in it: the cases the loop of search_birthday gets right
C28_SameYearOnly ==
    [][\A u \in UserIds, d \in DaysAhead :
         (/\ book'.last.op = "birthdays"
          /\ book'.last.user = u /\ book'.last.id = d
          /\ search_contacts(u, d, 0, 30)
          /\ book'.last.out # InternalError) =>
            Range(book'.last.result) =
               {i \in Upcoming(u, d) :
                   book.contacts[i].birthday.month >= book.today.month}]_vars

(***************************************************************************)
(* Properties of the interleaved requests (SpecConc).                      *)
(***************************************************************************)
\* the directory SpecConc starts from; Spec reaches it by signup, send_email
\* and confirmed_email
ConcStartDirectory ==
    /\ users["a@x.com"] # NoUser
    /\ users["a@x.com"].confirmed
    /\ users["a@x.com"].refresh_token = NoToken
    /\ users["a@x.com"].password = get_password_hash("secret1")
    /\ users["b@x.com"] = NoUser

\* C4: of two logins of one identity that ran concurrently, the refresh
\* token of the one whose write landed first is rejected with RevokedToken
\* by a refresh that presents it (unexpired) once both have landed, and is
\* never accepted.
C4_RaceLoserRevoked ==
    [][\A p \in Procs :
         ((RefreshClear(p) \/ RefreshWrite(p))
            /\ procs[p].token = overwritten /\ ~procs[p].raced)
         => last'.out = RevokedToken]_vars

\* the request of worker q has passed the comparison with the stored value
\* and will return a new token pair
Exchanging(q, token) ==
    /\ procs[q] # Idle
    /\ procs[q].pc \in {"refresh_issue", "refresh_write"}
    /\ procs[q].token = token

\* C22: of the refresh calls that present one token string, whatever their
\* interleaving, at most one returns a new token pair: when a call returns
\* one, no other call presenting the same string is past the comparison.
C22_ExchangedOnce ==
    [][\A p, q \in Procs :
         (p # q /\ RefreshWrite(p)) => ~Exchanging(q, procs[p].token)]_vars

\* C25: of the signups for one unregistered email that run concurrently, one
\* succeeds and each other one, finding the email taken when it creates,
\* fails with AccountExists and changes nothing.
C25_OneSignupWins ==
    [][\A p \in Procs :
         (SignupCreate(p) /\ Registered(procs[p].email)) =>
            (last'.out = AccountExists /\ users' = users
               /\ tasks' = tasks)]_vars

====
